---- MODULE Spec2Model ----
(***************************************************************************)
(* Model of analyse_dechargement.py: one invocation of main() reads the    *)
(* input workbook, derives six columns, writes the result workbook and     *)
(* runs two load-mutate-save passes over it (number format, column width). *)
(* The file system persists from one invocation to the next.               *)
(*                                                                         *)
(* Numbers are decimal: n * 10^-e, with no trailing zero in n when e > 0.   *)
(* Timestamps are whole days, so that a time span is a whole number of     *)
(* days, which is what to_excel stores for a Timedelta (total_seconds /    *)
(* 86400).                                                                 *)
(***************************************************************************)
EXTENDS Integers, Sequences, FiniteSets, TLC

VARIABLES
    pc,     \* position of the invocation in main / analyser_dechargement
    tbl,    \* the input workbook: [stem, hdr, rows]
    df,     \* the DataFrame held by analyser_dechargement
    wb,     \* the workbook a post-write pass has loaded (NoSheet when none is open)
    fs,     \* the file system: [dirs, files]
    exc,    \* the exception in flight or reported: [kind, phase]
    run,    \* number of the current invocation
    log,    \* the steps the current invocation has completed
    fs0,    \* the file system as the current invocation found it
    round_object    \* what Series.round does on an object column in the installed pandas

vars == <<pc, tbl, df, wb, fs, exc, run, log, fs0, round_object>>

-----------------------------------------------------------------------------
(* Bounds *)
MaxRows == 2
MaxRuns == 2

-----------------------------------------------------------------------------
(* Column names, written in ASCII (e for an accented e, 3 for the cube     *)
(* sign): every name keeps its number of characters                        *)
COL_DEBUT_PESEE == "Date heure 1ere pesee"
COL_FIN_PESEE == "Date heure 2eme pesee"
COL_DEBUT_DECH == "Date debut dechargement"
COL_FIN_DECH == "Date fin dechargement"
COL_DUREE_OPERATION == "Duree operation"
COL_TEMPS_TR == "Temps traitement"
COL_VOL_INIT == "Volume initial"
COL_VOL_FINAL == "Volume final"
COL_POIDS_ENTREE == "Poids entree (kg)"
COL_POIDS_SORTIE == "Poids sortie (kg)"
COL_POIDS_EAU == "Poids eau (kg)"
COL_VOL_CHARGE_CALCULE == "Volume charge (m3)"
COL_POIDS_EAU_CALCULE == "Poids eau Calcule (kg)"
COL_POIDS_NET_CALCULE == "Poids net Calcule (kg)"
COL_POIDS_NET_RECALCULE == "Poids net Recalcule (kg)"

NUMERIC_COLUMNS_TO_FORMAT ==
    <<COL_POIDS_EAU_CALCULE, COL_POIDS_NET_CALCULE, COL_POIDS_NET_RECALCULE>>

COLONNES_MODELE ==
    <<COL_DEBUT_PESEE, COL_FIN_PESEE, COL_DEBUT_DECH, COL_FIN_DECH,
      COL_VOL_INIT, COL_VOL_FINAL, COL_POIDS_ENTREE, COL_POIDS_SORTIE,
      COL_POIDS_EAU>>

parse_cols == <<COL_DEBUT_PESEE, COL_FIN_PESEE, COL_DEBUT_DECH, COL_FIN_DECH>>

num_format == "#,##0.00"

Range(s) == {s[i] : i \in DOMAIN s}

-----------------------------------------------------------------------------
(* Cell values.  Every value is a record of the same shape: k is the kind, *)
(* n and e the number n * 10^-e of a num, n the day of a dt or the days of *)
(* a td, s the text of a str.                                              *)
None == [k |-> "none", n |-> 0, e |-> 0, s |-> ""]
Dt(d) == [k |-> "dt", n |-> d, e |-> 0, s |-> ""]
Td(d) == [k |-> "td", n |-> d, e |-> 0, s |-> ""]
Str(t) == [k |-> "str", n |-> 0, e |-> 0, s |-> t]

RECURSIVE Pow10(_)
Pow10(e) == IF e = 0 THEN 1 ELSE 10 * Pow10(e - 1)

(* the number n * 10^-e, without trailing zeros after the point *)
RECURSIVE Num(_, _)
Num(n, e) ==
    IF e > 0 /\ n % 10 = 0 THEN Num(n \div 10, e - 1)
    ELSE [k |-> "num", n |-> n, e |-> e, s |-> ""]

(* the numerator of a num at the scale 10^-e, e >= v.e *)
Scaled(v, e) == v.n * Pow10(e - v.e)

(* a - b on two elements of object / datetime columns *)
CanSub(a, b) ==
    \/ a.k \in {"num", "none"} /\ b.k \in {"num", "none"}
    \/ a.k = "dt" /\ b.k \in {"dt", "none"}
    \/ a.k = "none" /\ b.k = "dt"
    \/ a.k = "td" /\ b.k \in {"td", "none"}

SubV(a, b) ==
    IF a.k = "none" \/ b.k = "none" THEN None
    ELSE IF a.k = "num"
    THEN LET e == IF a.e > b.e THEN a.e ELSE b.e
         IN  Num(Scaled(a, e) - Scaled(b, e), e)
    ELSE IF a.k = "dt" THEN Td(a.n - b.n)
    ELSE Td(a.n - b.n)

(* the multiple of q nearest to x, a tie going to the even multiple *)
RoundHalfEven(x, q) ==
    LET lo == (x \div q) * q
        r == x - lo
    IN  IF 2 * r < q THEN lo
        ELSE IF 2 * r > q THEN lo + q
        ELSE IF (x \div q) % 2 = 0 THEN lo ELSE lo + q

-----------------------------------------------------------------------------
(* A header label is [name, lead, trail]: its text without the blanks     *)
(* around it, and the number of blanks before and after it.                *)
Label(c) == [name |-> c, lead |-> 0, trail |-> 0]
Padded(c) == [name |-> c, lead |-> 1, trail |-> 1]

(* str.strip() of a header label *)
Strip(h) == [h EXCEPT !.lead = 0, !.trail = 0]

RECURSIVE Blanks(_)
Blanks(n) == IF n = 0 THEN "" ELSE " " \o Blanks(n - 1)

LabelText(h) == Blanks(h.lead) \o h.name \o Blanks(h.trail)

(* DataFrame: a sequence of columns [name, dtype, vals], name a header     *)
(* label and vals one value per row.  df[c] looks the exact label c up.    *)
HasCol(d, c) == \E j \in DOMAIN d : d[j].name = Label(c)

Col(d, c) == d[CHOOSE j \in DOMAIN d : d[j].name = Label(c)].vals

Dtype(d, c) == d[CHOOSE j \in DOMAIN d : d[j].name = Label(c)].dtype

(* df[c]: the Series [dtype, vals] *)
Series(d, c) == [dtype |-> Dtype(d, c), vals |-> Col(d, c)]

(* df[c] = series: replaces the column of that name, or appends a new one *)
SetCol(d, c, ser) ==
    LET new == [name |-> Label(c), dtype |-> ser.dtype, vals |-> ser.vals]
    IN  IF HasCol(d, c)
        THEN [j \in DOMAIN d |-> IF d[j].name = Label(c) THEN new ELSE d[j]]
        ELSE Append(d, new)

NRows(d) == IF d = <<>> THEN 0 ELSE Len(d[1].vals)

(* Exceptions *)
NoExc == [kind |-> "none", phase |-> "none"]
Exc(kind, phase) == [kind |-> kind, phase |-> phase]

(* The sheet of a workbook: the header row, the data rows, the number      *)
(* format of every data cell and of every header cell, the width of every  *)
(* column (0: never set).                                                  *)
EmptySheet == [hdr |-> <<>>, hfmt |-> <<>>, rows |-> <<>>, fmt |-> <<>>, width |-> <<>>]

(* the workbook handle of a post-write pass *)
Closed == [open |-> FALSE, ws |-> EmptySheet]
Opened(ws) == [open |-> TRUE, ws |-> ws]

-----------------------------------------------------------------------------
(* The input workbook *)
Stem == "dechargement"

(* initial and final volume: 100.0 and 150.0, 0.0 and 0.125 *)
VolPairs == {<<Num(100, 0), Num(150, 0)>>, <<Num(0, 0), Num(125, 3)>>}

(* the four timestamps of a row, in the order of parse_cols *)
(* a date cell is a dt; a text cell is a str, which read_excel can parse   *)
(* as a date-time or not                                                   *)
DateTexts == ("1970-01-13" :> 12)

TimeTuples ==
    {<<Dt(10), Dt(12), Dt(10), Dt(11)>>,
     <<Dt(10), Str("1970-01-13"), Dt(10), Dt(11)>>,
     <<Dt(10), Str("n/a"), Dt(10), Dt(11)>>,
     <<Dt(10), Dt(12), Str("?"), Dt(11)>>}

RowRecord(v, t) ==
    (COL_DEBUT_PESEE :> t[1]) @@ (COL_FIN_PESEE :> t[2]) @@
    (COL_DEBUT_DECH :> t[3]) @@ (COL_FIN_DECH :> t[4]) @@
    (COL_VOL_INIT :> v[1]) @@ (COL_VOL_FINAL :> v[2]) @@
    (COL_POIDS_ENTREE :> Num(5000, 0)) @@ (COL_POIDS_SORTIE :> Num(5200, 0)) @@
    (COL_POIDS_EAU :> Num(45, 0))

RowSamples == {RowRecord(v, t) : v \in VolPairs, t \in TimeTuples}

RECURSIVE Without(_, _)
Without(s, c) ==
    IF s = <<>> THEN <<>>
    ELSE IF Head(s) = c THEN Without(Tail(s), c)
    ELSE <<Head(s)>> \o Without(Tail(s), c)

(* the header rows considered: the model file's header, with one column    *)
(* left out, or with one label carrying blanks                             *)
Headers ==
    {[j \in DOMAIN COLONNES_MODELE |-> Label(COLONNES_MODELE[j])]}
    \cup {[j \in 1..(Len(COLONNES_MODELE) - 1) |-> Label(Without(COLONNES_MODELE, c)[j])] :
            c \in Range(COLONNES_MODELE)}
    \cup {[j \in DOMAIN COLONNES_MODELE |->
             IF COLONNES_MODELE[j] = c THEN Padded(c) ELSE Label(COLONNES_MODELE[j])] :
            c \in Range(COLONNES_MODELE)}

RowSeqs == UNION {[1..n -> RowSamples] : n \in 0..MaxRows}

Table(h, rs) ==
    [stem |-> Stem, hdr |-> h,
     rows |-> [i \in DOMAIN rs |-> [j \in DOMAIN h |-> rs[i][h[j].name]]]]

(* the output directory: whether it exists, and the files in it *)
EmptyFs == [dir |-> FALSE, files |-> {}]

Init ==
    /\ pc = "read"
    /\ \E h \in Headers, rs \in RowSeqs : tbl = Table(h, rs)
    /\ df = <<>>
    /\ wb = Closed
    /\ fs = EmptyFs
    /\ exc = NoExc
    /\ run = 1
    /\ log = <<>>
    /\ fs0 = EmptyFs
    /\ round_object \in {"unchanged", "TypeError"}

-----------------------------------------------------------------------------
(* read_excel(parse_dates = parse_cols, dtype = "object"), then the strip  *)
(* of the header labels                                                    *)
Parsable(v) == v.k \in {"dt", "none"} \/ (v.k = "str" /\ v.s \in DOMAIN DateTexts)

ToDatetime(v) == IF v.k = "str" THEN Dt(DateTexts[v.s]) ELSE v

(* a parse_dates column becomes a datetime64 column when every value of it *)
(* parses, and is returned unaltered, as an object column, otherwise       *)
AllParse(vals) == \A i \in DOMAIN vals : Parsable(vals[i])

ParseDates(vals) ==
    IF AllParse(vals) THEN [i \in DOMAIN vals |-> ToDatetime(vals[i])] ELSE vals

(* parse_dates names a column by its exact label in the file *)
MissingParseDates(t) ==
    \E c \in Range(parse_cols) : \A j \in DOMAIN t.hdr : t.hdr[j] # Label(c)

(* dtype = "object": every other column keeps the cell values as objects *)
ReadColumn(t, j) ==
    LET raw == [i \in DOMAIN t.rows |-> t.rows[i][j]]
    IN  IF \E c \in Range(parse_cols) : t.hdr[j] = Label(c)
        THEN [name |-> t.hdr[j],
              dtype |-> IF AllParse(raw) THEN "datetime64" ELSE "object",
              vals |-> ParseDates(raw)]
        ELSE [name |-> t.hdr[j], dtype |-> "object", vals |-> raw]

read_excel(t) == [j \in DOMAIN t.hdr |-> ReadColumn(t, j)]

StripColumns(d) == [j \in DOMAIN d |-> [d[j] EXCEPT !.name = Strip(d[j].name)]]

-----------------------------------------------------------------------------
(* Column arithmetic of the calculation step *)
ColCanSub(a, b) == \A i \in DOMAIN a : CanSub(a[i], b[i])

ColSub(a, b) == [i \in DOMAIN a |-> SubV(a[i], b[i])]

(* the dtype of a - b *)
SubDtype(a, b) ==
    IF a = "datetime64" /\ b = "datetime64" THEN "timedelta64"
    ELSE IF a = "float64" /\ b = "float64" THEN "float64"
    ELSE "object"

(* v * (1 + 6.6 / 100) and v * (1 - 7 / 100) *)
EauPermille == 1066
NetPercent == 93

TimesEau(v) == IF v.k = "num" THEN Num(v.n * EauPermille, v.e + 3) ELSE v

TimesNet(v) == IF v.k = "num" THEN Num(v.n * NetPercent, v.e + 2) ELSE v

(* the number rounded to 2 decimals *)
Round2(v) ==
    IF v.k = "num" /\ v.e > 2
    THEN Num(RoundHalfEven(v.n, Pow10(v.e - 2)) \div Pow10(v.e - 2), 2)
    ELSE v

(* round(series, 2) is Series.round(2).  It rounds a numeric column.  On   *)
(* an object column, which is what arithmetic on the object columns of     *)
(* read_excel(dtype = "object") gives, it rounds nothing: depending on the *)
(* pandas installed it returns the values unchanged or raises TypeError.   *)
RoundRaises(ser) == ser.dtype = "object" /\ round_object = "TypeError"

RoundSeries(ser) ==
    IF ser.dtype = "object" THEN ser
    ELSE [ser EXCEPT !.vals = [i \in DOMAIN ser.vals |-> Round2(ser.vals[i])]]

(* a - b of two Series of the same length *)
CanSubSeries(a, b) == ColCanSub(a.vals, b.vals)

SubSeries(a, b) == [dtype |-> SubDtype(a.dtype, b.dtype), vals |-> ColSub(a.vals, b.vals)]

-----------------------------------------------------------------------------
(* DataFrame.to_excel(path, index = False): one sheet, the header row      *)
(* first, the columns in their order                                       *)
ToCell(v) == IF v.k = "td" THEN Num(v.n, 0) ELSE v

DefaultFormat(v) ==
    IF v.k = "dt" THEN "YYYY-MM-DD HH:MM:SS" ELSE IF v.k = "td" THEN "0" ELSE "General"

to_excel(d) ==
    [hdr |-> [j \in DOMAIN d |-> Str(LabelText(d[j].name))],
     hfmt |-> [j \in DOMAIN d |-> "General"],
     rows |-> [i \in 1..NRows(d) |-> [j \in DOMAIN d |-> ToCell(d[j].vals[i])]],
     fmt |-> [i \in 1..NRows(d) |-> [j \in DOMAIN d |-> DefaultFormat(d[j].vals[i])]],
     width |-> [j \in DOMAIN d |-> 0]]

(* the result file of an input file: <stem>_resultats.xlsx *)
fichier_resultat(t) == t.stem \o "_resultats.xlsx"

HasFile(f, name) == \E x \in f.files : x.name = name

FileSheet(f, name) == (CHOOSE x \in f.files : x.name = name).sheet

(* writing a file creates it or replaces its content *)
WriteFile(f, name, ws) ==
    [f EXCEPT !.files = {x \in f.files : x.name # name} \cup {[name |-> name, sheet |-> ws]}]

-----------------------------------------------------------------------------
(* appliquer_format_numerique: the mutation between load_workbook and save *)
header_row == 1

max_row(ws) == header_row + Len(ws.rows)

(* col_index.get(col_name): the 1-based column of that header, 0 for None; *)
(* a later column of the same header replaces an earlier one in the dict   *)
col_index(ws, col_name) ==
    LET S == {j \in DOMAIN ws.hdr : ws.hdr[j] = Str(col_name)}
    IN  IF S = {} THEN 0 ELSE CHOOSE j \in S : \A k \in S : k <= j

(* ws[letter + row].number_format = f for every sheet row in rs *)
SetNumberFormat(ws, idx, rs, f) ==
    [ws EXCEPT
       !.hfmt = [j \in DOMAIN ws.hfmt |->
                   IF j = idx /\ header_row \in rs THEN f ELSE ws.hfmt[j]],
       !.fmt = [i \in DOMAIN ws.fmt |-> [j \in DOMAIN ws.fmt[i] |->
                   IF j = idx /\ (header_row + i) \in rs THEN f ELSE ws.fmt[i][j]]]]

(* the loop over the rows stopping one row early *)
FormatColumn_OffByOne(ws, idx) ==
    SetNumberFormat(ws, idx, (header_row + 1)..(max_row(ws) - 1), num_format)

FormatColumn(ws, idx) == SetNumberFormat(ws, idx, (header_row + 1)..max_row(ws), num_format)

RECURSIVE FormatColumns(_, _)
FormatColumns(ws, names) ==
    IF names = <<>> THEN ws
    ELSE LET idx == col_index(ws, Head(names))
         IN  FormatColumns(IF idx = 0 THEN ws ELSE FormatColumn(ws, idx), Tail(names))

appliquer_format_numerique(ws) == FormatColumns(ws, NUMERIC_COLUMNS_TO_FORMAT)

-----------------------------------------------------------------------------
(* ajuster_largeur_colonnes: the mutation between load_workbook and save *)
RECURSIVE Digits(_)
Digits(n) == IF n < 10 THEN 1 ELSE 1 + Digits(n \div 10)

(* len(str(x)) of the float x = n * 10^-e: sign, integer digits, the       *)
(* point, and the decimals without trailing zeros (at least one)           *)
FloatStrLen(v) ==
    LET a == IF v.n < 0 THEN -v.n ELSE v.n
    IN  (IF v.n < 0 THEN 1 ELSE 0) + Digits(a \div Pow10(v.e)) + 1
        + (IF v.e = 0 THEN 1 ELSE v.e)

(* len(str(cell.value)), "" for None; a datetime prints as 19 characters *)
PyStrLen(v) ==
    IF v.k = "none" THEN 0
    ELSE IF v.k = "str" THEN Len(v.s)
    ELSE IF v.k = "dt" THEN 19
    ELSE FloatStrLen(v)

(* the cells of column j without the header cell *)
ColumnCells_NoHeader(ws, j) == [i \in DOMAIN ws.rows |-> ws.rows[i][j]]

(* the cells of column j, the header cell first *)
ColumnCells(ws, j) == <<ws.hdr[j]>> \o [i \in DOMAIN ws.rows |-> ws.rows[i][j]]

RECURSIVE max_length(_, _)
max_length(cells, acc) ==
    IF cells = <<>> THEN acc
    ELSE LET n == PyStrLen(Head(cells))
         IN  max_length(Tail(cells), IF n > acc THEN n ELSE acc)

WidthPadding == 2

ColumnWidth(ws, j) == max_length(ColumnCells(ws, j), 0) + WidthPadding

ajuster_largeur_colonnes(ws) ==
    [ws EXCEPT !.width = [j \in DOMAIN ws.hdr |-> ColumnWidth(ws, j)]]

-----------------------------------------------------------------------------
(* The operands of round, and the time spans, of the calculation step *)
VolCharge(d) == SubSeries(Series(d, COL_VOL_FINAL), Series(d, COL_VOL_INIT))

PoidsEauCalcule(d) ==
    LET v == Series(d, COL_VOL_CHARGE_CALCULE)
    IN  [v EXCEPT !.vals = [i \in DOMAIN v.vals |-> TimesEau(v.vals[i])]]

DureeOperation(d) == SubSeries(Series(d, COL_FIN_DECH), Series(d, COL_DEBUT_DECH))

TempsTraitement(d) == SubSeries(Series(d, COL_FIN_PESEE), Series(d, COL_DEBUT_PESEE))

(* (sortie - entree - eau) * (1 - 7 / 100), eau the column c *)
PoidsNet(d, c) ==
    LET v == SubSeries(SubSeries(Series(d, COL_POIDS_SORTIE), Series(d, COL_POIDS_ENTREE)),
                       Series(d, c))
    IN  [v EXCEPT !.vals = [i \in DOMAIN v.vals |-> TimesNet(v.vals[i])]]

CanPoidsNet(d, c) ==
    /\ CanSubSeries(Series(d, COL_POIDS_SORTIE), Series(d, COL_POIDS_ENTREE))
    /\ CanSubSeries(SubSeries(Series(d, COL_POIDS_SORTIE), Series(d, COL_POIDS_ENTREE)),
                    Series(d, c))

PoidsNetCalcule(d) == PoidsNet(d, COL_POIDS_EAU)

PoidsNetRecalcule(d) == PoidsNet(d, COL_POIDS_EAU_CALCULE)

-----------------------------------------------------------------------------
(* Steps of one invocation *)

(* an exception leaves analyser_dechargement for the handler of main; the  *)
(* DataFrame is kept in the model until the next invocation                *)
Raise(kind, phase) ==
    /\ pc' = "except"
    /\ exc' = Exc(kind, phase)
    /\ wb' = Closed
    /\ UNCHANGED <<tbl, df, fs, run, log, fs0, round_object>>

Goto(next) ==
    /\ pc' = next
    /\ UNCHANGED <<tbl, wb, fs, exc, run, log, fs0, round_object>>

(* the output directory created on entry, before the calculations *)
ReadExcel_MkdirFirst ==
    /\ pc = "read"
    /\ IF MissingParseDates(tbl)
       THEN Raise("ValueError", "read")
       ELSE /\ df' = StripColumns(read_excel(tbl))
            /\ fs' = [fs EXCEPT !.dir = TRUE]
            /\ pc' = "l173"
            /\ UNCHANGED <<tbl, wb, exc, run, log, fs0, round_object>>

ReadExcel ==
    /\ pc = "read"
    /\ IF MissingParseDates(tbl)
       THEN Raise("ValueError", "read")
       ELSE /\ df' = StripColumns(read_excel(tbl))
            /\ Goto("l173")

CalcVolCharge ==
    /\ pc = "l173"
    /\ IF ~HasCol(df, COL_VOL_FINAL) \/ ~HasCol(df, COL_VOL_INIT)
       THEN Raise("KeyError", "calc")
       ELSE IF ~CanSubSeries(Series(df, COL_VOL_FINAL), Series(df, COL_VOL_INIT))
       THEN Raise("TypeError", "calc")
       ELSE IF RoundRaises(VolCharge(df))
       THEN Raise("TypeError", "calc")
       ELSE /\ df' = SetCol(df, COL_VOL_CHARGE_CALCULE, RoundSeries(VolCharge(df)))
            /\ Goto("l174")

CalcPoidsEau ==
    /\ pc = "l174"
    /\ IF RoundRaises(PoidsEauCalcule(df))
       THEN Raise("TypeError", "calc")
       ELSE /\ df' = SetCol(df, COL_POIDS_EAU_CALCULE, RoundSeries(PoidsEauCalcule(df)))
            /\ Goto("l176")

CalcDureeOperation ==
    /\ pc = "l176"
    /\ IF ~HasCol(df, COL_FIN_DECH) \/ ~HasCol(df, COL_DEBUT_DECH)
       THEN Raise("KeyError", "calc")
       ELSE IF ~CanSubSeries(Series(df, COL_FIN_DECH), Series(df, COL_DEBUT_DECH))
       THEN Raise("TypeError", "calc")
       ELSE /\ df' = SetCol(df, COL_DUREE_OPERATION, DureeOperation(df))
            /\ Goto("l177")

CalcTempsTraitement ==
    /\ pc = "l177"
    /\ IF ~HasCol(df, COL_FIN_PESEE) \/ ~HasCol(df, COL_DEBUT_PESEE)
       THEN Raise("KeyError", "calc")
       ELSE IF ~CanSubSeries(Series(df, COL_FIN_PESEE), Series(df, COL_DEBUT_PESEE))
       THEN Raise("TypeError", "calc")
       ELSE /\ df' = SetCol(df, COL_TEMPS_TR, TempsTraitement(df))
            /\ Goto("l180")

CalcPoidsNetCalcule ==
    /\ pc = "l180"
    /\ IF \E c \in {COL_POIDS_SORTIE, COL_POIDS_ENTREE, COL_POIDS_EAU} : ~HasCol(df, c)
       THEN Raise("KeyError", "calc")
       ELSE IF ~CanPoidsNet(df, COL_POIDS_EAU)
       THEN Raise("TypeError", "calc")
       ELSE IF RoundRaises(PoidsNetCalcule(df))
       THEN Raise("TypeError", "calc")
       ELSE /\ df' = SetCol(df, COL_POIDS_NET_CALCULE, RoundSeries(PoidsNetCalcule(df)))
            /\ Goto("l186")

CalcPoidsNetRecalcule ==
    /\ pc = "l186"
    /\ IF \E c \in {COL_POIDS_SORTIE, COL_POIDS_ENTREE} : ~HasCol(df, c)
       THEN Raise("KeyError", "calc")
       ELSE IF ~CanPoidsNet(df, COL_POIDS_EAU_CALCULE)
       THEN Raise("TypeError", "calc")
       ELSE IF RoundRaises(PoidsNetRecalcule(df))
       THEN Raise("TypeError", "calc")
       ELSE /\ df' = SetCol(df, COL_POIDS_NET_RECALCULE, RoundSeries(PoidsNetRecalcule(df)))
            /\ pc' = "mkdir"
            /\ log' = Append(log, "derive")
            /\ UNCHANGED <<tbl, wb, fs, exc, run, fs0, round_object>>

(* mkdir without exist_ok *)
exist_ok_False == FALSE

(* dossier_sortie.mkdir(parents=True, exist_ok=True) *)
exist_ok == TRUE

Mkdir ==
    /\ pc = "mkdir"
    /\ IF fs.dir /\ ~exist_ok
       THEN Raise("FileExistsError", "mkdir")
       ELSE /\ fs' = [fs EXCEPT !.dir = TRUE]
            /\ pc' = "to_excel"
            /\ log' = Append(log, "mkdir")
            /\ UNCHANGED <<tbl, df, wb, exc, run, fs0, round_object>>

ToExcel ==
    /\ pc = "to_excel"
    /\ fs.dir
    /\ fs' = WriteFile(fs, fichier_resultat(tbl), to_excel(df))
    /\ pc' = "fmt_load"
    /\ log' = Append(log, "write")
    /\ UNCHANGED <<tbl, df, wb, exc, run, fs0, round_object>>

(* load_workbook of a post-write pass *)
LoadWorkbook(next) ==
    /\ HasFile(fs, fichier_resultat(tbl))
    /\ wb' = Opened(FileSheet(fs, fichier_resultat(tbl)))
    /\ pc' = next
    /\ UNCHANGED <<tbl, df, fs, exc, run, log, fs0, round_object>>

(* the mutation of the loaded workbook and wb.save of a post-write pass *)
SaveWorkbook(ws, event, next) ==
    /\ wb.open
    /\ fs' = WriteFile(fs, fichier_resultat(tbl), ws)
    /\ wb' = Closed
    /\ pc' = next
    /\ log' = Append(log, event)
    /\ UNCHANGED <<tbl, df, exc, run, fs0, round_object>>

FmtLoad == pc = "fmt_load" /\ LoadWorkbook("fmt_save")

(* the format pass without its wb.save *)
FmtSave_NoSave ==
    /\ pc = "fmt_save"
    /\ wb.open
    /\ wb' = Closed
    /\ pc' = "width_load"
    /\ log' = Append(log, "format")
    /\ UNCHANGED <<tbl, df, fs, exc, run, fs0, round_object>>

FmtSave == pc = "fmt_save" /\ SaveWorkbook(appliquer_format_numerique(wb.ws), "format", "width_load")

WidthLoad == pc = "width_load" /\ LoadWorkbook("width_save")

WidthSave == pc = "width_save" /\ SaveWorkbook(ajuster_largeur_colonnes(wb.ws), "width", "return")

(* the destination cannot be created, written or opened *)
FilePhase ==
    [mkdir |-> "mkdir", to_excel |-> "write", fmt_load |-> "format", fmt_save |-> "format",
     width_load |-> "width", width_save |-> "width"]

IOFailure ==
    /\ pc \in DOMAIN FilePhase
    /\ Raise("OSError", FilePhase[pc])

(* analyser_dechargement returns the path; main opens the file *)
Return ==
    /\ pc = "return"
    /\ pc' = "end"
    /\ UNCHANGED <<tbl, df, wb, fs, exc, run, log, fs0, round_object>>

(* a handler that removes the result file of the failed run *)
Except_Rollback ==
    /\ pc = "except"
    /\ pc' = "end"
    /\ fs' = [fs EXCEPT !.files = {x \in fs.files : x.name # fichier_resultat(tbl)}]
    /\ UNCHANGED <<tbl, df, wb, exc, run, log, fs0, round_object>>

(* except Exception in main: the error is printed *)
Except ==
    /\ pc = "except"
    /\ pc' = "end"
    /\ UNCHANGED <<tbl, df, wb, fs, exc, run, log, fs0, round_object>>

(* the program is started again on the same input file *)
Rerun ==
    /\ pc = "end"
    /\ run < MaxRuns
    /\ pc' = "read"
    /\ run' = run + 1
    /\ df' = <<>>
    /\ wb' = Closed
    /\ exc' = NoExc
    /\ log' = <<>>
    /\ fs0' = fs
    /\ UNCHANGED <<tbl, fs, round_object>>

Next ==
    \/ ReadExcel
    \/ CalcVolCharge
    \/ CalcPoidsEau
    \/ CalcDureeOperation
    \/ CalcTempsTraitement
    \/ CalcPoidsNetCalcule
    \/ CalcPoidsNetRecalcule
    \/ Mkdir
    \/ ToExcel
    \/ FmtLoad
    \/ FmtSave
    \/ WidthLoad
    \/ WidthSave
    \/ IOFailure
    \/ Return
    \/ Except
    \/ Rerun

Spec == Init /\ [][Next]_vars

-----------------------------------------------------------------------------
(* The two post-write passes run on a workbook that is already on disk:    *)
(* any sheet with distinct headers, as to_excel writes them                *)
MaxCols == 2

HeaderSamples == {COL_VOL_FINAL, "Navire", COL_POIDS_EAU_CALCULE, COL_POIDS_NET_CALCULE}

CellSamples == {None, Num(1234567, 2)}

FormatSamples == {"General", "0.0"}

HeaderRows ==
    UNION {{h \in [1..n -> HeaderSamples] : \A i, j \in 1..n : h[i] = h[j] => i = j} :
             n \in 1..MaxCols}

(* the sheet with the headers h, the data rows rs and the format f on      *)
(* every data cell                                                         *)
Sheet(h, rs, f) ==
    [hdr |-> [j \in DOMAIN h |-> Str(h[j])],
     hfmt |-> [j \in DOMAIN h |-> "General"],
     rows |-> rs,
     fmt |-> [i \in DOMAIN rs |-> [j \in DOMAIN h |-> f]],
     width |-> [j \in DOMAIN h |-> 0]]

SheetInit ==
    /\ pc = "fmt_load"
    /\ tbl = Table([j \in DOMAIN COLONNES_MODELE |-> Label(COLONNES_MODELE[j])], <<>>)
    /\ df = <<>>
    /\ wb = Closed
    /\ \E h \in HeaderRows, r \in 0..MaxRows, f \in FormatSamples :
          \E rs \in [1..r -> [DOMAIN h -> CellSamples]] :
              fs = [dir |-> TRUE,
                    files |-> {[name |-> fichier_resultat(tbl), sheet |-> Sheet(h, rs, f)]}]
    /\ exc = NoExc
    /\ run = 1
    /\ log = <<>>
    /\ fs0 = fs
    /\ round_object = "unchanged"

SheetNext ==
    \/ FmtLoad
    \/ FmtSave
    \/ WidthLoad
    \/ WidthSave
    \/ IOFailure
    \/ Return
    \/ Except

SheetSpec == SheetInit /\ [][SheetNext]_vars

-----------------------------------------------------------------------------
(* Properties *)

ResultSheet(f) == FileSheet(f, fichier_resultat(tbl))

AllParsable(t) ==
    \A i \in DOMAIN t.rows : \A j \in DOMAIN t.hdr :
        t.hdr[j].name \in Range(parse_cols) => Parsable(t.rows[i][j])

HeaderNames(t) == {t.hdr[j].name : j \in DOMAIN t.hdr}

ExactHeader(t) == \A j \in DOMAIN t.hdr : t.hdr[j] = Strip(t.hdr[j])

(* C2: a run that fails in the calculation step hands the failure to main, *)
(* and has then neither created the output directory nor written, loaded,  *)
(* formatted or resized any file: the disk is as the run found it.         *)
C2_NoOutputOnCalcFailure ==
    exc.phase = "calc" =>
        /\ pc \in {"except", "end"}
        /\ fs = fs0
        /\ log = <<>>
        /\ ~wb.open

C2_Witness ==
    /\ pc = "end"
    /\ exc = Exc("KeyError", "calc")
    /\ COL_VOL_INIT \notin HeaderNames(tbl)
    /\ tbl.rows # <<>>

(* every data cell of the three columns carries the two-decimal format *)
Formatted(ws) ==
    \A c \in Range(NUMERIC_COLUMNS_TO_FORMAT) :
        \E j \in DOMAIN ws.hdr :
            /\ ws.hdr[j] = Str(c)
            /\ \A i \in DOMAIN ws.fmt : ws.fmt[i][j] = "#,##0.00"

Unformatted(ws) ==
    \A i \in DOMAIN ws.fmt : \A j \in DOMAIN ws.fmt[i] : ws.fmt[i][j] # "#,##0.00"

Unsized(ws) == \A j \in DOMAIN ws.width : ws.width[j] = 0

Sized(ws) == \A j \in DOMAIN ws.width : ws.width[j] >= 2

PhaseOrder == <<"derive", "mkdir", "write", "format", "width">>

(* C4: the steps of a run complete in the order derive, (mkdir,) write,    *)
(* format, width; a workbook is held open only inside a pass; the format   *)
(* pass loads the complete written table, the width pass loads the file    *)
(* the format pass has saved (every target cell formatted), and what       *)
(* is on disk between two phases is the complete output of the last one.   *)
C4_PhasesInOrder ==
    /\ Len(log) <= Len(PhaseOrder)
    /\ \A i \in DOMAIN log : log[i] = PhaseOrder[i]
    /\ wb.open => pc \in {"fmt_save", "width_save"}
    /\ pc = "fmt_load" => log = SubSeq(PhaseOrder, 1, 3) /\ ResultSheet(fs) = to_excel(df)
    /\ pc = "fmt_save" => log = SubSeq(PhaseOrder, 1, 3) /\ wb.ws = to_excel(df)
    /\ pc = "width_load" =>
          /\ log = SubSeq(PhaseOrder, 1, 4)
          /\ ResultSheet(fs).rows = to_excel(df).rows
          /\ Formatted(ResultSheet(fs))
    /\ pc = "width_save" =>
          /\ log = SubSeq(PhaseOrder, 1, 4)
          /\ wb.ws = ResultSheet(fs)
          /\ wb.ws.rows = to_excel(df).rows
          /\ Formatted(wb.ws)
          /\ Unsized(wb.ws)
    /\ pc = "return" =>
          /\ log = PhaseOrder
          /\ ResultSheet(fs).rows = to_excel(df).rows
          /\ Formatted(ResultSheet(fs))
          /\ Sized(ResultSheet(fs))

C4_Witness ==
    /\ pc = "width_save"
    /\ wb.open
    /\ wb.ws.rows # <<>>
    /\ Formatted(wb.ws)

TargetHeaders == {Str(c) : c \in Range(NUMERIC_COLUMNS_TO_FORMAT)}

(* C6: when the format pass has run on a sheet, every data cell of the     *)
(* columns headed by one of the three names has the format #,##0.00; the   *)
(* names not in the header row are passed over; the header row, the cell   *)
(* values, the widths and the formats of all other cells are as before.    *)
C6_FormatPass ==
    (pc = "width_load" /\ log[Len(log)] = "format") =>
        LET a == ResultSheet(fs0)
            b == ResultSheet(fs)
        IN  /\ b.hdr = a.hdr
            /\ b.hfmt = a.hfmt
            /\ b.rows = a.rows
            /\ b.width = a.width
            /\ DOMAIN b.fmt = DOMAIN a.fmt
            /\ \A i \in DOMAIN a.fmt : \A j \in DOMAIN a.hdr :
                  b.fmt[i][j] = IF a.hdr[j] \in TargetHeaders THEN "#,##0.00" ELSE a.fmt[i][j]

C6_Witness ==
    /\ pc = "width_load"
    /\ LET b == ResultSheet(fs)
       IN  /\ Len(b.rows) >= 2
           /\ \E j, k \in DOMAIN b.hdr :
                 /\ b.hdr[j] = Str(COL_POIDS_NET_CALCULE)
                 /\ b.fmt[2][j] = "#,##0.00"
                 /\ b.hdr[k] = Str(COL_VOL_FINAL)
                 /\ b.fmt[2][k] = "0.0"
           /\ \A j \in DOMAIN b.hdr : b.hdr[j] # Str(COL_POIDS_NET_RECALCULE)

(* C7: when the width pass has run, the width of every column is 2 more    *)
(* than the longest text among its header and its cell values, an empty    *)
(* cell counting for 0; a header of 12 characters over cells of at most 8  *)
(* gives 14; the header row, the values and the formats are as before.     *)
C7_WidthPass ==
    (pc = "return" /\ log[Len(log)] = "width") =>
        LET a == ResultSheet(fs0)
            b == ResultSheet(fs)
        IN  /\ b.hdr = a.hdr
            /\ b.rows = a.rows
            /\ DOMAIN b.width = DOMAIN a.hdr
            /\ \A j \in DOMAIN a.hdr :
                  LET lens == {PyStrLen(a.hdr[j])} \cup {PyStrLen(a.rows[i][j]) : i \in DOMAIN a.rows}
                  IN  /\ b.width[j] - 2 \in lens
                      /\ \A n \in lens : n <= b.width[j] - 2
            /\ \A j \in DOMAIN a.hdr :
                  (/\ PyStrLen(a.hdr[j]) = 12
                   /\ \E i \in DOMAIN a.rows : PyStrLen(a.rows[i][j]) = 8
                   /\ \A i \in DOMAIN a.rows : PyStrLen(a.rows[i][j]) <= 8) => b.width[j] = 14

C7_Witness ==
    /\ pc = "return"
    /\ LET b == ResultSheet(fs)
       IN  \E j, k \in DOMAIN b.hdr : \E i \in DOMAIN b.rows :
              /\ b.hdr[j] = Str("Volume final")
              /\ PyStrLen(b.hdr[j]) = 12
              /\ b.rows[i][j] = Num(1234567, 2)
              /\ PyStrLen(b.rows[i][j]) = 8
              /\ b.width[j] = 14
              /\ b.hdr[k] = Str("Navire")
              /\ b.rows[i][k] = Num(1234567, 2)
              /\ b.width[k] = 10

Abs(x) == IF x < 0 THEN -x ELSE x

(* C9: on every row with both volumes, the loaded volume has at most 2     *)
(* decimals and lies at most half a hundredth away from final - initial,   *)
(* and the calculated water weight has at most 2 decimals and lies at most *)
(* half a hundredth away from 1.066 times that rounded volume.             *)
C9_RoundedVolumeFeedsWater ==
    (HasCol(df, COL_VOL_CHARGE_CALCULE) /\ HasCol(df, COL_POIDS_EAU_CALCULE)) =>
        \A i \in 1..NRows(df) :
            LET vi == Col(df, COL_VOL_INIT)[i]
                vf == Col(df, COL_VOL_FINAL)[i]
                vol == Col(df, COL_VOL_CHARGE_CALCULE)[i]
                eau == Col(df, COL_POIDS_EAU_CALCULE)[i]
            IN  (vi.k = "num" /\ vf.k = "num") =>
                    /\ vol.k = "num"
                    /\ vol.e <= 2
                    /\ 2 * Abs(Scaled(vol, 3) - (Scaled(vf, 3) - Scaled(vi, 3))) <= 10
                    /\ eau.k = "num"
                    /\ eau.e <= 2
                    /\ 2 * Abs(1000 * Scaled(eau, 2) - 1066 * Scaled(vol, 2)) <= 1000

(* C10: a second run on the same input and output directory, the first     *)
(* having written its file, ends without error unless the destination      *)
(* itself fails; the directory then holds the one file <stem>_resultats    *)
(* .xlsx, with the header and the data values the first run wrote.         *)
C10_ExportTwice ==
    (run >= 2 /\ pc = "end" /\ HasFile(fs0, fichier_resultat(tbl)) /\ exc.kind # "OSError") =>
        /\ exc = NoExc
        /\ log = PhaseOrder
        /\ Cardinality(fs.files) = 1
        /\ \A x \in fs.files : x.name = tbl.stem \o "_resultats.xlsx"
        /\ ResultSheet(fs).hdr = ResultSheet(fs0).hdr
        /\ ResultSheet(fs).rows = ResultSheet(fs0).rows

C10_Witness ==
    /\ run = 2
    /\ pc = "end"
    /\ exc = NoExc
    /\ fs0.dir
    /\ HasFile(fs0, fichier_resultat(tbl))
    /\ Sized(ResultSheet(fs0))
    /\ ResultSheet(fs).rows # <<>>
    /\ ResultSheet(fs) = ResultSheet(fs0)

(* the raw value of column c on row i of the input workbook *)
Raw(t, i, c) == t.rows[i][CHOOSE j \in DOMAIN t.hdr : t.hdr[j].name = c]

AllColumns(t) == HeaderNames(t) = Range(COLONNES_MODELE)

(* a run that ended, in an installation where round leaves object columns  *)
(* as they are, and whose destination did not fail                         *)
RunEnded == pc = "end" /\ round_object = "unchanged" /\ exc.kind # "OSError"

(* C1: without the column Poids eau (kg), all other columns being there,   *)
(* the run does not abort: Poids net Calcule (kg) is missing on every row, *)
(* Poids net Recalcule (kg) is a number on every row, the file is written. *)
C1_MissingOptionalColumnTolerated ==
    (/\ RunEnded
     /\ ExactHeader(tbl)
     /\ AllParsable(tbl)
     /\ HeaderNames(tbl) = Range(COLONNES_MODELE) \ {COL_POIDS_EAU}) =>
        /\ exc = NoExc
        /\ HasFile(fs, fichier_resultat(tbl))
        /\ HasCol(df, COL_POIDS_NET_CALCULE)
        /\ HasCol(df, COL_POIDS_NET_RECALCULE)
        /\ \A i \in 1..NRows(df) :
              /\ Col(df, COL_POIDS_NET_CALCULE)[i] = None
              /\ Col(df, COL_POIDS_NET_RECALCULE)[i].k = "num"

(* the time span end - start of row i: missing when one of the two does    *)
(* not parse                                                               *)
SpanOrMissing(t, i, start, end) ==
    IF Parsable(Raw(t, i, start)) /\ Parsable(Raw(t, i, end))
    THEN SubV(ToDatetime(Raw(t, i, end)), ToDatetime(Raw(t, i, start)))
    ELSE None

(* C3: a timestamp that does not parse does not abort the run: the time    *)
(* span that depends on it is missing on that row only, the time spans of  *)
(* the other rows and the other derived columns are computed, and the file *)
(* is written.                                                             *)
C3_UnparseableTimestampTolerated ==
    (RunEnded /\ ExactHeader(tbl) /\ AllColumns(tbl)) =>
        /\ exc = NoExc
        /\ HasFile(fs, fichier_resultat(tbl))
        /\ HasCol(df, COL_DUREE_OPERATION)
        /\ HasCol(df, COL_TEMPS_TR)
        /\ HasCol(df, COL_POIDS_NET_RECALCULE)
        /\ \A i \in 1..NRows(df) :
              /\ Col(df, COL_DUREE_OPERATION)[i] =
                    SpanOrMissing(tbl, i, COL_DEBUT_DECH, COL_FIN_DECH)
              /\ Col(df, COL_TEMPS_TR)[i] =
                    SpanOrMissing(tbl, i, COL_DEBUT_PESEE, COL_FIN_PESEE)
              /\ Col(df, COL_POIDS_NET_CALCULE)[i].k = "num"
              /\ Col(df, COL_POIDS_NET_RECALCULE)[i].k = "num"

(* the table with every header label stripped of its blanks *)
ExactTable(t) == [t EXCEPT !.hdr = [j \in DOMAIN t.hdr |-> Strip(t.hdr[j])]]

(* the six assignments of the calculation step, none of them raising *)
Enriched(d) ==
    LET d1 == SetCol(d, COL_VOL_CHARGE_CALCULE, RoundSeries(VolCharge(d)))
        d2 == SetCol(d1, COL_POIDS_EAU_CALCULE, RoundSeries(PoidsEauCalcule(d1)))
        d3 == SetCol(d2, COL_DUREE_OPERATION, DureeOperation(d2))
        d4 == SetCol(d3, COL_TEMPS_TR, TempsTraitement(d3))
        d5 == SetCol(d4, COL_POIDS_NET_CALCULE, RoundSeries(PoidsNetCalcule(d4)))
    IN  SetCol(d5, COL_POIDS_NET_RECALCULE, RoundSeries(PoidsNetRecalcule(d5)))

(* C8: blanks around a header label of the input do not make the run fail, *)
(* and the run derives the columns it derives from the same table with     *)
(* the exact labels.                                                       *)
C8_PaddedHeaderMatched ==
    (RunEnded /\ AllColumns(tbl) /\ AllParsable(tbl)) =>
        /\ exc = NoExc
        /\ df = Enriched(StripColumns(read_excel(ExactTable(tbl))))
        /\ HasFile(fs, fichier_resultat(tbl))
        /\ ResultSheet(fs).rows = to_excel(df).rows

====
